---- MODULE Spec2Model ----
(***************************************************************************)
(* Model of src/src/io.rs: the dual-sink Logger (console + log file) and   *)
(* report_verifications, the verification summary renderer.                *)
(*                                                                         *)
(* Text is a sequence of tokens.  A token is one character, or one whole   *)
(* escape sequence.  A character is written as itself ("a", " ", "|"),     *)
(* with its escape ("\n", "\t", "\r", "\f"), or, when a string cannot hold *)
(* it, as its code point ("U+0001", "U+2003").  An escape sequence is      *)
(* written "ESC" followed by the characters after the escape character     *)
(* ("ESC[31m", "ESC[1;35m", "ESC[2K").  Test, file and framework names are *)
(* strings; Chars turns one into text.  An Option<T> is a sequence of      *)
(* length at most one: None is <<>>, Some(x) is <<x>>.  A path is the      *)
(* sequence of its components.                                             *)
(***************************************************************************)
EXTENDS Integers, Sequences, FiniteSets, TLC

VARIABLES
    logger,    \* the caller's Logger: [prefix, log_dir, log_file, quiet]
    dirs,      \* filesystem: the set of existing directory paths
    files,     \* filesystem: existing regular files, path -> content
    colorize,  \* whether the colored crate emits escape sequences (environment)
    limit,     \* the size the system lets a file grow to (environment)
    overrun,   \* what a write beyond that size does to the caller (environment)
    inbox,     \* the Vec<Verification> the caller holds for report_verifications
    out,       \* stdout of the last call: the sequence of printed lines
    result,    \* how the last call ended: "ok", "err" (Err returned), "panic",
               \* "killed" (the process ended by a signal inside the call)
    last,      \* the last call and its inputs
    pre,       \* logger / files / dirs as they were before the last call
    degraded,  \* some set_test or set_log_file so far failed to create
    redirected,\* some set_log_file so far replaced a bound log_file by another
    nops       \* number of calls made so far

vars ==
    <<logger, dirs, files, colorize, limit, overrun, inbox, out, result, last,
      pre, degraded, redirected, nops>>

-----------------------------------------------------------------------------
(* Bounds of the model *)

MaxOps == 3
MaxOutcomes == 2

(* Program constants *)

GutterWidth == 8
TypeWidth == 13
StatusWidth == 5
BorderWidth == 79

-----------------------------------------------------------------------------
(* Option<T> *)

None == <<>>
Some(x) == <<x>>
IsSome(o) == o # <<>>
Unwrap(o) == o[1]

-----------------------------------------------------------------------------
(* Text *)

NL == "\n"
Reset == "ESC[0m"
Red == "ESC[31m"
Green == "ESC[32m"
Yellow == "ESC[33m"
Cyan == "ESC[36m"
BoldWhite == "ESC[1;37m"

(* Whether a token is an escape sequence, whichever it is. *)
IsEscapeSequence(c) == Len(c) > 3 /\ SubSeq(c, 1, 3) = "ESC"

HexDigits ==
    { "0", "1", "2", "3", "4", "5", "6", "7", "8", "9", "A", "B", "C", "D",
      "E", "F" }

(* The C0 control characters U+0000..U+001F other than the line feed.
   "U+001B" is an escape character that begins no escape sequence. *)
ControlBytes ==
    ({"U+00" \o h \o l : h \in {"0", "1"}, l \in HexDigits}
        \ {"U+0009", "U+000A", "U+000C", "U+000D"})
    \cup {"\t", "\f", "\r"}

(* The characters of a string. *)
Chars(name) == [i \in 1..Len(name) |-> SubSeq(name, i, i)]

(* Unicode White_Space, as str::trim and str::trim_end take it. *)
Whitespace ==
    { " ", "\t", "\n", "\r", "\f", "U+000B", "U+0085", " ", "U+1680",
      "U+2000", "U+2001", "U+2002", "U+2003", "U+2004", "U+2005", "U+2006",
      "U+2007", "U+2008", "U+2009", "U+200A", "U+2028", "U+2029", "U+202F",
      "U+205F", "U+3000" }

RECURSIVE Concat(_)
Concat(ss) ==
    IF ss = <<>> THEN <<>> ELSE Head(ss) \o Concat(Tail(ss))

Spaces(n) == [i \in 1..n |-> " "]

(* Rust's {:w} on a string: left-aligned, padded with spaces to at least w
   characters, never truncated. *)
Pad(s, w) ==
    IF Len(s) >= w THEN s ELSE s \o Spaces(w - Len(s))

(* str::trim_end *)
RECURSIVE TrimEnd(_)
TrimEnd(s) ==
    IF s = <<>> THEN <<>>
    ELSE IF s[Len(s)] \in Whitespace THEN TrimEnd(SubSeq(s, 1, Len(s) - 1))
    ELSE s

(* line.trim().is_empty() *)
IsBlank(line) == \A i \in 1..Len(line) : line[i] \in Whitespace

(* str::lines: a line ends at "\n" or at "\r\n", neither of which belongs
   to it; the text after the last "\n" is a line only when it is not
   empty. *)
Lines(text) ==
    LET n == Len(text)
        breaks == {i \in 1..n : text[i] = NL}
        nth(k) == CHOOSE i \in breaks :
                     Cardinality({j \in breaks : j < i}) = k - 1
        count == Cardinality(breaks)
                 + (IF n > 0 /\ text[n] # NL THEN 1 ELSE 0)
        first(k) == IF k = 1 THEN 1 ELSE nth(k - 1) + 1
        end(k) == IF k <= Cardinality(breaks)
                  THEN (IF nth(k) - 1 >= first(k) /\ text[nth(k) - 1] = "\r"
                        THEN nth(k) - 2 ELSE nth(k) - 1)
                  ELSE n
    IN  [k \in 1..count |-> SubSeq(text, first(k), end(k))]

(* strip_ansi_escapes::strip: of an escape sequence nothing is written, of
   the control characters only the line feed; every other character is. *)
Strip(bytes) ==
    SelectSeq(bytes,
              LAMBDA c : ~IsEscapeSequence(c) /\ c \notin ControlBytes)

(* The lines of a text that log does not skip. *)
NonBlankLines(text) == SelectSeq(Lines(text), LAMBDA l : ~IsBlank(l))

(* colored: a style applied to a string and formatted with a minimum width.
   Without colors the padded input is written as is; with colors the padded
   input is wrapped in the style's escape sequence and a reset. *)
Styled(style, s, w) ==
    IF colorize THEN <<style>> \o Pad(s, w) \o <<Reset>> ELSE Pad(s, w)

(* ColoredString::clear(): a plain string whatever the environment. *)
Plain(s, w) == Pad(s, w)

-----------------------------------------------------------------------------
(* Paths and the filesystem *)

Push(path, name) == Append(path, name)
Parent(path) == SubSeq(path, 1, Len(path) - 1)
Ancestors(path) == {SubSeq(path, 1, n) : n \in 1..Len(path)}

(* Path::exists: a directory or a regular file is there. *)
Exists(ds, fs, path) == path \in ds \/ path \in DOMAIN fs

(* A one-component relative path lies in the current directory, which exists. *)
ParentExists(ds, path) == Len(path) <= 1 \/ Parent(path) \in ds

(* create_dir_all: the directory and every missing ancestor. *)
CreateDirAll(ds, path) == ds \cup Ancestors(path)

(* create_dir_all that fails: failAt > 0 says that the operating system
   refuses to create the component of that depth, which is missing; the
   missing ancestors above it have been created by then. *)
CreateDirFails(ds, path, failAt) ==
    /\ failAt \in 1..Len(path)
    /\ SubSeq(path, 1, failAt) \notin ds
CreateDirPartly(ds, path, failAt) ==
    ds \cup {a \in Ancestors(path) : Len(a) < failAt}

(* File::create: a new empty file, or an existing one truncated. *)
CreateFile(fs, path) ==
    [p \in DOMAIN fs \cup {path} |-> IF p = path THEN <<>> ELSE fs[p]]

(* OpenOptions::append + write_all: the bytes go after the present content. *)
AppendBytes(content, bytes) == content \o bytes

(* No limit on the size of a file. *)
Unlimited == 0 - 1

(* How many of n more bytes a file with this content takes: all of them, or
   as many as bring it to the limit. *)
Accepted(content, n) ==
    IF limit = Unlimited \/ Len(content) + n <= limit THEN n
    ELSE IF Len(content) >= limit THEN 0
    ELSE limit - Len(content)

-----------------------------------------------------------------------------
(* Logger constructors *)

Default ==
    [prefix |-> None, log_dir |-> None, log_file |-> None, quiet |-> FALSE]

WithPrefix(prefix) ==
    [prefix |-> Some(prefix), log_dir |-> None, log_file |-> None,
     quiet |-> FALSE]

InDir(log_dir) ==
    [prefix |-> None, log_dir |-> Some(log_dir), log_file |-> None,
     quiet |-> FALSE]

-----------------------------------------------------------------------------
(* Logger::set_test.  failAt: 0, or the depth at which create_dir_all is
   refused.  Returns the Logger, the directories and whether creation
   failed. *)

(* Variant: the early return of line 80 missing. *)
CreateDirFailedRescoped(lg, log_dir) == [lg EXCEPT !.log_dir = Some(log_dir)]
(* Line 80: return, self untouched. *)
CreateDirFailed(lg, log_dir) == lg

(* Variant: rescoping forgets the bound file. *)
RescopedUnbound(lg, log_dir, name) ==
    [lg EXCEPT !.log_dir = Some(log_dir), !.prefix = Some(name),
               !.log_file = None]
(* Lines 83 and 86. *)
Rescoped(lg, log_dir, name) ==
    [lg EXCEPT !.log_dir = Some(log_dir), !.prefix = Some(name)]

SetTest(lg, ds, fs, name, failAt) ==
    IF IsSome(lg.log_dir)
    THEN LET log_dir == Push(Unwrap(lg.log_dir), name) IN
         IF ~Exists(ds, fs, log_dir) /\ CreateDirFails(ds, log_dir, failAt)
         THEN [logger |-> CreateDirFailed(lg, log_dir),
               dirs |-> CreateDirPartly(ds, log_dir, failAt),
               failed |-> TRUE]
         ELSE [logger |-> Rescoped(lg, log_dir, name),
               dirs |-> IF Exists(ds, fs, log_dir) THEN ds
                        ELSE CreateDirAll(ds, log_dir),
               failed |-> FALSE]
    ELSE [logger |-> [lg EXCEPT !.prefix = Some(name)], dirs |-> ds,
          failed |-> FALSE]

-----------------------------------------------------------------------------
(* create_results_dir: create_dir_all("results/<now>"), now the UTC time as
   %Y%m%d%H%M%S.  An existing directory is no error; a refused creation is
   returned, the ancestors created before it remaining. *)

ResultsDir(now) == <<"results", now>>

CreateResultsDir(ds, now, failAt) ==
    LET result_dir == ResultsDir(now) IN
    IF CreateDirFails(ds, result_dir, failAt)
    THEN [dirs |-> CreateDirPartly(ds, result_dir, failAt), result |-> "err"]
    ELSE [dirs |-> CreateDirAll(ds, result_dir), result |-> "ok"]

-----------------------------------------------------------------------------
(* Logger::set_log_file.  osOk: whether the operating system lets File::create
   succeed, given that the parent directory exists. *)

(* Variant: without a log_dir the file is bound in the current directory. *)
BindBaseOrCwd(lg) == IF IsSome(lg.log_dir) THEN lg.log_dir ELSE Some(<<>>)
(* Line 95: self.log_dir.clone() *)
BindBase(lg) == lg.log_dir

(* Variant: File::create whether or not the file exists. *)
AlwaysCreate(ds, fs, path) == TRUE
(* Line 98: !log_file.exists() *)
NeedsCreate(ds, fs, path) == ~Exists(ds, fs, path)

SetLogFile(lg, ds, fs, file_name, osOk) ==
    IF IsSome(BindBase(lg))
    THEN LET log_file == Push(Unwrap(BindBase(lg)), file_name) IN
         IF NeedsCreate(ds, fs, log_file)
         THEN IF osOk /\ ParentExists(ds, log_file)
              THEN [logger |-> [lg EXCEPT !.log_file = Some(log_file)],
                    files |-> CreateFile(fs, log_file), failed |-> FALSE]
              ELSE [logger |-> lg, files |-> fs, failed |-> TRUE]
         ELSE [logger |-> [lg EXCEPT !.log_file = Some(log_file)],
               files |-> fs, failed |-> FALSE]
    ELSE [logger |-> lg, files |-> fs, failed |-> FALSE]

-----------------------------------------------------------------------------
(* Logger::log.

   The operating system may refuse one of the operations of a call.  A fault
   [at |-> n, kind |-> k] strikes at the (n+1)-th line of the call that is
   not blank: kind "open" refuses OpenOptions::open; kind "newline" makes the
   write_all of the line feed fail once, after the line itself has been
   written; kind "print" makes the write to stdout fail.  Apart from these a
   write_all comes to an end whenever the file has reached the size limit,
   after the bytes that still fit have been written: nothing of the line, a
   part of it, or all of it without its line feed.  What the write beyond
   the limit does is the environment's: write(2) fails and `?` returns the
   error (a full disk, a quota, RLIMIT_FSIZE with SIGXFSZ ignored), or the
   process is killed by SIGXFSZ (RLIMIT_FSIZE with the signal at its default
   disposition, which the Rust runtime leaves as it is).  The characters
   written to a file are ASCII, one byte each. *)

NoFault == [at |-> 0 - 1, kind |-> "none"]

(* The faults that may strike a call that handles these non-blank lines. *)
Faults(lines) ==
    {NoFault}
    \cup [at : 0..(Len(lines) - 1),
          kind : {"open", "newline", "print"}]

(* What open(..).unwrap() does with a refused open, what `?` does with a
   refused write, and what print! and println! do when stdout refuses. *)
OpenRefused == "panic"
WriteRefused == "err"
PrintRefused == "panic"

(* What a write beyond the size limit may do: the Err of write_all(..)?, or
   the end of the process by SIGXFSZ. *)
Overruns == {WriteRefused, "killed"}

(* Variant: quiet silences the file too. *)
WritesFileUnlessQuiet(lg) == IsSome(lg.log_file) /\ ~lg.quiet
(* if let Some(log_file) = &self.log_file *)
WritesFile(lg) == IsSome(lg.log_file)

(* The bytes one logged line adds to the file. *)
FileBytes(line) == Strip(line) \o <<NL>>

(* print!("{}: ", prefix.white().bold()) then println!("{}", line.trim_end()) *)
PrefixPart(lg) ==
    IF IsSome(lg.prefix)
    THEN Styled(BoldWhite, Chars(Unwrap(lg.prefix)), 0) \o <<":", " ">>
    ELSE <<>>

ConsoleLine(lg, line) == PrefixPart(lg) \o TrimEnd(line)

(* The file part of one iteration of the loop, lines 114-122.  st is
   [files, out, line, result, fired]; line counts the non-blank lines this
   call has dealt with so far, fired says whether the fault has struck. *)
WriteToFile(lg, st, line, fault) ==
    LET log_file == Unwrap(lg.log_file)
        has == log_file \in DOMAIN st.files
        hit(kind) == fault.at = st.line /\ fault.kind = kind
        put(bytes) == [st.files EXCEPT
                         ![log_file] = AppendBytes(@, bytes)]
        fits(n) == Accepted(st.files[log_file], n)
    IN  IF ~has THEN [st EXCEPT !.result = OpenRefused]
        ELSE IF hit("open")
        THEN [st EXCEPT !.result = OpenRefused, !.fired = TRUE]
        ELSE IF hit("newline") /\ fits(Len(Strip(line))) = Len(Strip(line))
        THEN [st EXCEPT !.files = put(Strip(line)),
                        !.result = WriteRefused, !.fired = TRUE]
        ELSE IF fits(Len(FileBytes(line))) < Len(FileBytes(line))
        THEN [st EXCEPT
                !.files = put(SubSeq(FileBytes(line), 1,
                                     fits(Len(FileBytes(line))))),
                !.result = overrun]
        ELSE [st EXCEPT !.files = put(FileBytes(line))]

(* One iteration of the loop over text.lines(), lines 111-130: the file
   first, then stdout.  out receives the lines that reached stdout.  Once
   the call has returned or panicked nothing more happens. *)
LogLine(lg, st, line, fault) ==
    IF st.result # "ok" \/ IsBlank(line) THEN st
    ELSE LET st1 == IF WritesFile(lg) THEN WriteToFile(lg, st, line, fault)
                    ELSE st
         IN  IF st1.result # "ok" THEN st1
             ELSE IF lg.quiet THEN [st1 EXCEPT !.line = @ + 1]
             ELSE IF fault.at = st.line /\ fault.kind = "print"
             THEN [st1 EXCEPT !.result = PrintRefused, !.fired = TRUE]
             ELSE [st1 EXCEPT !.out = Append(@, ConsoleLine(lg, line)),
                              !.line = @ + 1]

RECURSIVE LogLines(_, _, _, _)
LogLines(lg, st, lines, fault) ==
    IF lines = <<>> THEN st
    ELSE LogLines(lg, LogLine(lg, st, Head(lines), fault), Tail(lines), fault)

(* logger.log(text), continuing from st *)
LogFrom(lg, st, text, fault) == LogLines(lg, st, Lines(text), fault)

Start(fs) ==
    [files |-> fs, out |-> <<>>, line |-> 0, result |-> "ok",
     fired |-> FALSE]

Log(lg, fs, text, fault) == LogFrom(lg, Start(fs), text, fault)

(* ColoredString's Display of text.red(): every reset inside the text is
   followed by the style again, so that the text stays red to its end. *)
RECURSIVE EscapeInnerResets(_, _)
EscapeInnerResets(text, style) ==
    IF text = <<>> THEN <<>>
    ELSE IF Head(text) = Reset
    THEN <<Reset, style>> \o EscapeInnerResets(Tail(text), style)
    ELSE <<Head(text)>> \o EscapeInnerResets(Tail(text), style)

(* Logger::error *)
ErrorText(text) ==
    IF colorize THEN <<Red>> \o EscapeInnerResets(text, Red) \o <<Reset>>
    ELSE text

-----------------------------------------------------------------------------
(* report_verifications *)

LogFileName == "benchmark.txt"

Border(c) == [i \in 1..BorderWidth |-> c]
Title == Chars("Verification Summary")
ErrorWord == <<"E", "R", "R", "O", "R">>
WarnWord == <<"W", "A", "R", "N">>
PassWord == <<"P", "A", "S", "S">>
Dash == <<" ", "-", " ">>

(* Variant: the verification put before the earlier ones. *)
PushFront(list, verification) == <<verification>> \o list
(* frameworks.get_mut(..).unwrap().push(verification.clone()) *)
PushBack(list, verification) == Append(list, verification)

(* The HashMap built by the loop of lines 213-222: framework name -> the
   verifications of that framework. *)
RECURSIVE GroupInto(_, _)
GroupInto(frameworks, verifications) ==
    IF verifications = <<>> THEN frameworks
    ELSE LET v == Head(verifications)
             key == v.framework_name
             withKey == IF key \in DOMAIN frameworks THEN frameworks
                        ELSE [k \in DOMAIN frameworks \cup {key} |->
                                IF k = key THEN <<>> ELSE frameworks[k]]
         IN  GroupInto([withKey EXCEPT ![key] = PushBack(@, v)],
                       Tail(verifications))

Frameworks(verifications) == GroupInto(<<>>, verifications)

(* The orders in which a HashMap with these keys may be iterated. *)
IterationOrders(keys) ==
    {o \in [1..Cardinality(keys) -> keys] :
        \A i, j \in DOMAIN o : i # j => o[i] # o[j]}

FrameworkLine(name) ==
    Styled(Cyan, <<"|">>, 0) \o <<" ">> \o Styled(Cyan, Chars(name), 0)

(* Variant: warnings looked at before errors. *)
VerificationLineWarnFirst(v) ==
    LET gutter == Styled(Cyan, <<"|">>, GutterWidth)
        type == Styled(Cyan, v.type_name, TypeWidth)
    IN  IF v.warnings # <<>>
        THEN gutter \o type \o <<":", " ">>
             \o Styled(Yellow, WarnWord, StatusWidth) \o Dash
             \o v.warnings[1].short_message
        ELSE IF v.errors # <<>>
        THEN gutter \o type \o <<":", " ">>
             \o Styled(Red, ErrorWord, StatusWidth) \o Dash
             \o v.errors[1].short_message
        ELSE gutter \o type \o <<":", " ">>
             \o Styled(Green, PassWord, StatusWidth)

(* The line of one verification, lines 236-259. *)
VerificationLine(v) ==
    LET gutter == Styled(Cyan, <<"|">>, GutterWidth)
        type == Styled(Cyan, v.type_name, TypeWidth)
    IN  IF v.errors # <<>>
        THEN gutter \o type \o <<":", " ">>
             \o Styled(Red, ErrorWord, StatusWidth) \o Dash
             \o v.errors[1].short_message
        ELSE IF v.warnings # <<>>
        THEN gutter \o type \o <<":", " ">>
             \o Styled(Yellow, WarnWord, StatusWidth) \o Dash
             \o v.warnings[1].short_message
        ELSE gutter \o type \o <<":", " ">>
             \o Styled(Green, PassWord, StatusWidth)

(* The texts handed to logger.log for one framework, lines 234-260. *)
FrameworkTexts(name, group) ==
    <<FrameworkLine(name)>>
    \o [i \in 1..Len(group) |-> VerificationLine(group[i])]

(* Every text handed to logger.log, in order, lines 229-262. *)
ReportTexts(verifications, order) ==
    LET frameworks == Frameworks(verifications) IN
    <<Styled(Cyan, Border("="), 0), Styled(Cyan, Title, 0),
      Styled(Cyan, Border("-"), 0)>>
    \o Concat([i \in 1..Len(order) |->
                 FrameworkTexts(order[i], frameworks[order[i]])])
    \o <<Styled(Cyan, Border("="), 0) \o Plain(<<>>, 0)>>

(* The non-blank lines of all the texts, in order. *)
ReportLines(texts) ==
    Concat([i \in 1..Len(texts) |-> NonBlankLines(texts[i])])

(* logger.log(..)? for each text in turn: the first failure ends the call. *)
RECURSIVE LogAll(_, _, _, _)
LogAll(lg, st, texts, fault) ==
    IF texts = <<>> THEN st
    ELSE LogAll(lg, LogFrom(lg, st, Head(texts), fault), Tail(texts), fault)

ReportVerifications(verifications, lg, ds, fs, order, osOk, fault) ==
    LET bound == SetLogFile(lg, ds, fs, LogFileName, osOk)
        st == LogAll(bound.logger, Start(bound.files),
                     ReportTexts(verifications, order), fault)
    IN  [logger |-> bound.logger, failed |-> bound.failed,
         files |-> st.files, out |-> st.out, result |-> st.result,
         fired |-> st.fired]

-----------------------------------------------------------------------------
(* Inputs *)

Timestamps == {"20200619191252"}
Root == ResultsDir("20200619191252")
TestNames == {"gemini"}
FileNames == {LogFileName, "build"}

LogTexts ==
    { <<"o", "k">>,                        \* a plain line
      <<"o", "k", " ", "\t">>,             \* trailing whitespace
      <<"a", "\r", NL, " ", NL, "b", NL>>, \* two lines around a blank one
      <<"a", "\t", "b">>,                  \* a tab inside the line
      <<Green, "o", "k", Reset>> }         \* styled

ErrorTexts == { <<"n", "o", NL, "\t", "g", "o">> }

Msg(chars) == [short_message |-> chars]
Timeout == Msg(<<"t", "i", "m", "e", "o", "u", "t">>)
Bad == Msg(<<"b", "a", "d">>)
Slow == Msg(<<"s", "l", "o", "w">>)

Json == <<"j", "s", "o", "n">>
Plaintext == <<"p", "l", "a", "i", "n", "t", "e", "x", "t">>
CachedQueries ==
    <<"c", "a", "c", "h", "e", "d", "-", "q", "u", "e", "r", "i", "e", "s">>

Verification(f, t, e, w) ==
    [framework_name |-> f, type_name |-> t, errors |-> e, warnings |-> w]

Scenario ==
    << Verification("gemini", Json, <<>>, <<>>),
       Verification("gemini", Plaintext, <<Timeout>>, <<>>) >>

Interleaved ==
    << Verification("gemini", Json, <<>>, <<Slow>>),
       Verification("actix", Json, <<Bad, Timeout>>, <<Slow>>),
       Verification("gemini", Plaintext, <<>>, <<>>) >>

Verifications ==
    { Verification("gemini", Json, <<Timeout, Bad>>, <<Slow>>),
      Verification("gemini", CachedQueries, <<>>, <<Slow>>),
      Verification("actix", Json, <<>>, <<>>) }

VerificationLists ==
    UNION { [1..n -> Verifications] : n \in 0..MaxOutcomes }

-----------------------------------------------------------------------------
(* The state machine: a caller that owns one Logger and calls its methods
   and report_verifications, one call per step. *)

(* How many components the path log_dir/<more components> has. *)
Depth(lg, more) ==
    IF IsSome(lg.log_dir) THEN Len(Unwrap(lg.log_dir)) + more ELSE 0

Snapshot == [logger |-> logger, dirs |-> dirs, files |-> files]

Call(op, name, text, fault, failed, order) ==
    [op |-> op, name |-> name, text |-> text, fault |-> fault,
     failed |-> failed, order |-> order]

NoCall == Call("new", "", <<>>, NoFault, FALSE, <<>>)

(* The caller makes up to MaxOps calls; an Err is a return like any other,
   a panic or a killing signal ends the caller. *)
Running == nops < MaxOps /\ result \notin {"panic", "killed"}

(* The file size limits of the runs: none, and limits that a line of a log
   text, the transcript of an earlier run, and the summary reach. *)
Limits == {Unlimited, 4}

(* A transcript an earlier run has left in the results directory, cut short
   in the middle of a line. *)
Old == Push(Root, LogFileName) :> <<"o", "l", "d">>

(* A directory an earlier run has left in the results directory, under a
   name that is also passed to set_log_file. *)
Build == Push(Root, "build")

Init ==
    /\ logger \in {Default, WithPrefix("run"), InDir(Root)}
    /\ \/ dirs = {} /\ files = <<>>
       \/ dirs = Ancestors(Root) /\ files = <<>>
       \/ dirs = Ancestors(Root) /\ files = Old /\ IsSome(logger.log_dir)
       \/ dirs = Ancestors(Build) /\ files = <<>> /\ IsSome(logger.log_dir)
    /\ colorize \in BOOLEAN
    /\ limit \in (IF IsSome(logger.log_dir) /\ dirs = Ancestors(Root)
                  THEN Limits ELSE {Unlimited})
    /\ overrun \in (IF limit = Unlimited THEN {WriteRefused} ELSE Overruns)
    /\ redirected = FALSE
    /\ inbox = <<>>    \* the summary of no verifications: title and borders
    /\ out = <<>>
    /\ result = "ok"
    /\ last = NoCall
    /\ pre = Snapshot
    /\ degraded = FALSE
    /\ nops = 0

DoCreateResultsDir ==
    /\ Running
    /\ \E now \in Timestamps : \E failAt \in 0..Len(ResultsDir(now)) :
         \E r \in {CreateResultsDir(dirs, now, failAt)} :
         /\ failAt = 0 \/ r.result = "err"
         /\ dirs' = r.dirs
         /\ result' = r.result
         /\ last' = Call("create_results_dir", now, <<>>, NoFault,
                         r.result = "err", <<>>)
    /\ out' = <<>>
    /\ pre' = Snapshot
    /\ nops' = nops + 1
    /\ UNCHANGED <<degraded, logger, files, colorize, limit, overrun,
                   redirected, inbox>>

DoSetTest ==
    /\ Running
    /\ \E name \in TestNames, failAt \in 0..Depth(logger, 1) :
         \E r \in {SetTest(logger, dirs, files, name, failAt)} :
         /\ failAt = 0 \/ r.failed
         /\ logger' = r.logger
         /\ dirs' = r.dirs
         /\ last' = Call("set_test", name, <<>>, NoFault, r.failed, <<>>)
         /\ degraded' = (degraded \/ r.failed)
    /\ out' = <<>>
    /\ result' = "ok"
    /\ pre' = Snapshot
    /\ nops' = nops + 1
    /\ UNCHANGED <<files, colorize, limit, overrun, redirected, inbox>>

DoSetLogFile ==
    /\ Running
    /\ \E name \in FileNames, osOk \in BOOLEAN :
         \E r \in {SetLogFile(logger, dirs, files, name, osOk)} :
         /\ osOk \/ r.failed
         /\ logger' = r.logger
         /\ files' = r.files
         /\ last' = Call("set_log_file", name, <<>>, NoFault, r.failed, <<>>)
         /\ degraded' = (degraded \/ r.failed)
         /\ redirected' = (redirected
                             \/ (IsSome(logger.log_file)
                                   /\ r.logger.log_file # logger.log_file))
    /\ out' = <<>>
    /\ result' = "ok"
    /\ pre' = Snapshot
    /\ nops' = nops + 1
    /\ UNCHANGED <<dirs, colorize, limit, overrun, inbox>>

DoSetQuiet ==
    /\ Running
    /\ logger' = [logger EXCEPT !.quiet = ~logger.quiet]
    /\ last' = Call("set_quiet", "", <<>>, NoFault, FALSE, <<>>)
    /\ out' = <<>>
    /\ result' = "ok"
    /\ pre' = Snapshot
    /\ nops' = nops + 1
    /\ UNCHANGED <<degraded, dirs, files, colorize, limit, overrun,
                   redirected, inbox>>

DoLog ==
    /\ Running
    /\ \E text \in LogTexts : \E fault \in Faults(NonBlankLines(text)) :
         \E st \in {Log(logger, files, text, fault)} :
         /\ fault = NoFault \/ st.fired
         /\ files' = st.files
         /\ out' = st.out
         /\ result' = st.result
         /\ last' = Call("log", "", text, fault, FALSE, <<>>)
    /\ pre' = Snapshot
    /\ nops' = nops + 1
    /\ UNCHANGED <<degraded, logger, dirs, colorize, limit, overrun,
                   redirected, inbox>>

DoError ==
    /\ Running
    /\ \E text \in ErrorTexts :
       \E fault \in Faults(NonBlankLines(ErrorText(text))) :
         \E st \in {Log(logger, files, ErrorText(text), fault)} :
         /\ fault = NoFault \/ st.fired
         /\ files' = st.files
         /\ out' = st.out
         /\ result' = st.result
         /\ last' = Call("error", "", text, fault, FALSE, <<>>)
    /\ pre' = Snapshot
    /\ nops' = nops + 1
    /\ UNCHANGED <<degraded, logger, dirs, colorize, limit, overrun,
                   redirected, inbox>>

(* report_verifications takes the Logger by value: the caller's own Logger is
   not changed by the set_log_file made inside. *)
DoReport ==
    /\ Running
    /\ \E order \in IterationOrders(DOMAIN Frameworks(inbox)),
          osOk \in BOOLEAN :
       \E fault \in Faults(ReportLines(ReportTexts(inbox, order))) :
         \E r \in {ReportVerifications(inbox, logger, dirs, files, order,
                                      osOk, fault)} :
         /\ osOk \/ r.failed
         /\ fault = NoFault \/ r.fired
         /\ files' = r.files
         /\ out' = r.out
         /\ result' = r.result
         /\ last' = Call("report", LogFileName, <<>>, fault, r.failed, order)
         /\ degraded' = (degraded \/ r.failed)
    /\ pre' = Snapshot
    /\ nops' = nops + 1
    /\ UNCHANGED <<logger, dirs, colorize, limit, overrun, redirected, inbox>>

Next ==
    \/ DoCreateResultsDir
    \/ DoSetTest
    \/ DoSetLogFile
    \/ DoSetQuiet
    \/ DoLog
    \/ DoError
    \/ DoReport

Spec == Init /\ [][Next]_vars

(* report_verifications alone, on every list of verifications within the
   bounds. *)
ReportInit ==
    /\ logger = InDir(Root)
    /\ dirs = Ancestors(Root)
    /\ files = <<>>
    /\ colorize \in BOOLEAN
    /\ limit \in {Unlimited, 86}
    /\ overrun \in (IF limit = Unlimited THEN {WriteRefused} ELSE Overruns)
    /\ redirected = FALSE
    /\ inbox \in VerificationLists \cup {Scenario, Interleaved}
    /\ out = <<>>
    /\ result = "ok"
    /\ last = NoCall
    /\ pre = Snapshot
    /\ degraded = FALSE
    /\ nops = 0

ReportNext == nops = 0 /\ DoReport

ReportSpec == ReportInit /\ [][ReportNext]_vars

-----------------------------------------------------------------------------
(* Vocabulary of the properties *)

IsPrefixOf(a, b) == Len(a) <= Len(b) /\ SubSeq(b, 1, Len(a)) = a

Wrote(op) == last.op = op
LoggedOk == Wrote("log") /\ result = "ok"
WasBound == IsSome(pre.logger.log_file)
BoundFile == Unwrap(pre.logger.log_file)

(* The bytes the last call added to the file that was bound when it began. *)
Appended ==
    SubSeq(files[BoundFile], Len(pre.files[BoundFile]) + 1,
           Len(files[BoundFile]))

(* One line of text without styling or control characters that is not
   blank. *)
IsPlainLine(text) ==
    /\ ~IsBlank(text)
    /\ \A i \in 1..Len(text) :
          ~IsEscapeSequence(text[i]) /\ text[i] \notin ControlBytes \cup {NL}

(* A text with its escape sequences removed and nothing else. *)
WithoutEscapes(text) == SelectSeq(text, LAMBDA c : ~IsEscapeSequence(c))

(* A printed line without its "<prefix>: " part. *)
ConsoleText(printed) ==
    SubSeq(printed, Len(PrefixPart(pre.logger)) + 1, Len(printed))

-----------------------------------------------------------------------------
(* C2: when a log file is bound, every failure to open it or to write to it
   during log comes back to the caller as an Err; log never ends abnormally
   instead. *)
C2_FailuresAreReturned ==
    (Wrote("log") /\ WasBound
       /\ last.fault.kind \in {"open", "newline"})
        => result = "err"

(* C3: after set_test(test_name) returns, the prefix is test_name, whether
   log_dir is unset, the directory existed, was created, or could not be
   created. *)
C3_PrefixAlwaysSet ==
    Wrote("set_test") => logger.prefix = Some(last.name)

(* C4 as stated: once a directory or file creation has failed in set_test or
   set_log_file, no later log writes to a log file. *)
C4_ConsoleOnlyAfterFailure ==
    (degraded /\ Wrote("log")) => files = pre.files

(* The directory a set_test call was to create. *)
Target == Push(Unwrap(pre.logger.log_dir), last.name)

(* The path a set_log_file call was to bind. *)
BindTarget == Push(Unwrap(pre.logger.log_dir), last.name)

(* C4 as amended: a creation failure in set_test or set_log_file is not
   propagated and leaves log_dir, log_file and every file as they were; the
   directory or file that could not be created is not there, and the only
   directories a failed set_test may have added are missing ancestors of
   its directory; and log writes to no file as long as no log file is
   bound. *)
C4_FailureLeavesSinksAsTheyWere ==
    /\ (last.op \in {"set_test", "set_log_file"} /\ last.failed)
           => /\ result = "ok"
              /\ logger.log_dir = pre.logger.log_dir
              /\ logger.log_file = pre.logger.log_file
              /\ files = pre.files
              /\ pre.dirs \subseteq dirs
              /\ Wrote("set_log_file")
                    => /\ dirs = pre.dirs
                       /\ ~Exists(dirs, files, BindTarget)
              /\ Wrote("set_test")
                    => /\ Target \notin dirs
                       /\ dirs \ pre.dirs \subseteq Ancestors(Parent(Target))
    /\ (Wrote("log") /\ ~WasBound) => files = pre.files

(* A set_test whose directory could not be created, on a Logger that already
   has a bound file. *)
C4_Witness ==
    /\ Wrote("set_test")
    /\ last.failed
    /\ IsSome(logger.log_file)

(* C5: for a log on a non-quiet Logger with a bound file, the bytes appended
   to the file are exactly the printed line texts with the escape sequences
   removed, each followed by one newline. *)
C5_FileEqualsStrippedConsole ==
    (LoggedOk /\ WasBound /\ ~pre.logger.quiet)
        => Appended =
             Concat([i \in 1..Len(out) |->
                       WithoutEscapes(ConsoleText(out[i])) \o <<NL>>])

(* C6: log on a quiet Logger with a bound file prints nothing and leaves the
   files exactly as the same call on the same Logger with quiet = false would
   leave them. *)
C6_QuietOnlySilencesConsole ==
    (Wrote("log") /\ WasBound /\ pre.logger.quiet)
        => /\ out = <<>>
           /\ files = Log([pre.logger EXCEPT !.quiet = FALSE], pre.files,
                           last.text, last.fault).files

(* A quiet Logger that wrote two lines to its file. *)
C6_Witness ==
    /\ LoggedOk /\ WasBound /\ pre.logger.quiet
    /\ Appended = <<"a", NL, "b", NL>>

(* C7: every call leaves every existing file with its former content as a
   prefix of its new content; set_log_file on an existing file leaves its
   content as it was; and a successful log of a plain non-blank line appends
   that line and a newline whatever the file already ends with, so logging it
   twice leaves it there twice. *)
C7_FilesOnlyGrow ==
    /\ \A p \in DOMAIN pre.files :
          p \in DOMAIN files /\ IsPrefixOf(pre.files[p], files[p])
    /\ (Wrote("set_log_file") /\ IsSome(logger.log_file)
           /\ Unwrap(logger.log_file) \in DOMAIN pre.files)
          => files = pre.files
    /\ (LoggedOk /\ WasBound /\ IsPlainLine(last.text))
          => files[BoundFile] = pre.files[BoundFile] \o last.text \o <<NL>>

(* The same plain line logged twice into a new file. *)
C7_Witness ==
    /\ LoggedOk /\ WasBound
    /\ last.text = <<"o", "k">>
    /\ files[BoundFile] = <<"o", "k", NL, "o", "k", NL>>

(* C8 as stated: once log_file is set it names an existing file, and no
   call changes it. *)
C8_NeverRedirected ==
    /\ IsSome(logger.log_file) => Unwrap(logger.log_file) \in DOMAIN files
    /\ WasBound => logger.log_file = pre.logger.log_file

Bind == Wrote("set_log_file") /\ ~last.failed /\ IsSome(pre.logger.log_dir)

(* C8 as amended: once log_file is set it is never unset and always names a
   path that exists, a regular file unless a directory stood there when it
   was bound; a set_log_file that succeeds on a Logger with a log_dir sets it
   to log_dir/file_name and no other call changes it, so that it changes
   exactly when that path is another one; and a log or error changes no file
   but the one log_file names at the time of the call, to which it appends,
   or ends abnormally when that path is a directory. *)
C8_BoundStaysBound ==
    /\ WasBound => IsSome(logger.log_file)
    /\ IsSome(logger.log_file)
          => Exists(dirs, files, Unwrap(logger.log_file))
    /\ Bind => /\ logger.log_file = Some(BindTarget)
               /\ BindTarget \notin pre.dirs => BindTarget \in DOMAIN files
    /\ ~Bind => logger.log_file = pre.logger.log_file
    /\ (last.op \in {"log", "error"} /\ WasBound)
          => /\ DOMAIN files = DOMAIN pre.files
             /\ \A p \in DOMAIN files :
                   IF p = BoundFile THEN IsPrefixOf(pre.files[p], files[p])
                   ELSE files[p] = pre.files[p]
             /\ BoundFile \notin DOMAIN files => result = "panic"

(* A log into the file a Logger was redirected to from another one. *)
C8_Witness ==
    /\ LoggedOk /\ WasBound
    /\ redirected
    /\ Cardinality(DOMAIN files) = 2
    /\ Appended # <<>>

(* C9: with log_dir unset, set_test and set_log_file leave log_dir and
   log_file unset, create nothing and raise nothing: set_test changes the
   prefix only, set_log_file changes nothing at all; and log then writes to
   no file and returns no error, ending abnormally only when stdout cannot
   be written. *)
C9_NoDirNoFile ==
    (~IsSome(pre.logger.log_dir)
       /\ last.op \in {"set_test", "set_log_file", "log", "error"})
        => /\ ~IsSome(logger.log_dir)
           /\ ~IsSome(logger.log_file)
           /\ dirs = pre.dirs
           /\ files = pre.files
           /\ ~last.failed
           /\ result = "ok" \/ (last.op \in {"log", "error"}
                                 /\ last.fault.kind = "print"
                                 /\ result = "panic")
           /\ Wrote("set_test")
                 => logger = [pre.logger EXCEPT !.prefix = Some(last.name)]
           /\ Wrote("set_log_file") => logger = pre.logger

(* set_test("gemini") followed by set_log_file, log_dir unset. *)
C9_Witness ==
    /\ ~IsSome(pre.logger.log_dir)
    /\ Wrote("set_log_file")
    /\ pre.logger.prefix = Some("gemini")
    /\ logger = pre.logger

-----------------------------------------------------------------------------
(* The summary as it reached the two sinks *)

Reported == Wrote("report") /\ result = "ok"

ReportFile == Push(Unwrap(pre.logger.log_dir), LogFileName)
ReportFileBound == IsSome(pre.logger.log_dir) /\ ~last.failed

(* The lines the report appended to benchmark.txt. *)
FileSummary ==
    LET before == IF ReportFile \in DOMAIN pre.files
                  THEN Len(pre.files[ReportFile]) ELSE 0
    IN  Lines(SubSeq(files[ReportFile], before + 1, Len(files[ReportFile])))

(* The lines the report printed, without prefix and styling. *)
ConsoleSummary == [i \in 1..Len(out) |-> Strip(ConsoleText(out[i]))]

FrameworkNames == {inbox[n].framework_name : n \in DOMAIN inbox}
OutcomesOf(name) ==
    SelectSeq(inbox, LAMBDA v : v.framework_name = name)

(* Where the header of the i-th framework in order, and the line of its k-th
   outcome, stand in the summary: after the three title lines and the blocks
   of the frameworks before it. *)
HeaderIndex(order, i) ==
    3 + (i - 1)
      + Cardinality({n \in DOMAIN inbox :
           \E j \in 1..(i - 1) : inbox[n].framework_name = order[j]})
      + 1
LineIndex(order, i, k) == HeaderIndex(order, i) + k

(* What a verification's line has to say after the two name columns. *)
ExpectedStatus(v) ==
    IF v.errors # <<>>
    THEN <<":", " ">> \o Pad(ErrorWord, StatusWidth) \o Dash
         \o v.errors[1].short_message
    ELSE IF v.warnings # <<>>
    THEN <<":", " ">> \o Pad(WarnWord, StatusWidth) \o Dash
         \o v.warnings[1].short_message
    ELSE <<":", " ">> \o Pad(PassWord, StatusWidth)

ExpectedLine(v) ==
    Pad(<<"|">>, GutterWidth) \o Pad(v.type_name, TypeWidth)
    \o ExpectedStatus(v)

(* The part of a summary line after the gutter and the type column. *)
StatusPart(line, v) ==
    LET skip == GutterWidth
                + (IF Len(v.type_name) > TypeWidth THEN Len(v.type_name)
                   ELSE TypeWidth)
    IN  SubSeq(line, skip + 1, Len(line))

StatusesRight(summary, exact) ==
    \A i \in 1..Len(last.order) :
        \A k \in 1..Len(OutcomesOf(last.order[i])) :
            LET v == OutcomesOf(last.order[i])[k]
                at == LineIndex(last.order, i, k)
            IN  /\ at <= Len(summary)
                /\ IF exact
                   THEN StatusPart(summary[at], v) = ExpectedStatus(v)
                   ELSE TrimEnd(StatusPart(summary[at], v))
                          = TrimEnd(ExpectedStatus(v))

(* C1: in the summary every verification's line says ERROR and the first
   error's short message when it has errors (whatever its warnings), WARN and
   the first warning's short message when it has warnings only, and PASS with
   nothing after it when it has neither; in the file as written, on the
   console up to the trimmed trailing whitespace. *)
C1_StatusByPriority ==
    Reported
        => /\ ReportFileBound => StatusesRight(FileSummary, TRUE)
           /\ ~pre.logger.quiet => StatusesRight(ConsoleSummary, FALSE)

(* A summary with an ERROR line for errors and warnings together, a WARN
   line and a PASS line. *)
C1_Witness ==
    /\ Reported /\ ReportFileBound
    /\ \E n \in DOMAIN inbox :
          inbox[n].errors # <<>> /\ inbox[n].warnings # <<>>
    /\ \E n \in DOMAIN inbox :
          inbox[n].errors = <<>> /\ inbox[n].warnings # <<>>
    /\ \E n \in DOMAIN inbox :
          inbox[n].errors = <<>> /\ inbox[n].warnings = <<>>

(* The summary is the three title lines, then for each framework, in some
   order of the distinct framework names, its header and the lines of exactly
   its verifications in the order they were supplied, then the closing
   border. *)
Grouped(summary, order) ==
    /\ Len(summary) = 3 + Len(order) + Len(inbox) + 1
    /\ \A i \in 1..Len(order) :
          /\ summary[HeaderIndex(order, i)] = <<"|", " ">> \o Chars(order[i])
          /\ \A k \in 1..Len(OutcomesOf(order[i])) :
                TrimEnd(summary[LineIndex(order, i, k)])
                  = TrimEnd(ExpectedLine(OutcomesOf(order[i])[k]))

(* C10: every distinct framework name is a header exactly once, and beneath
   it stands one line for each of its verifications, in the order supplied;
   none is dropped, repeated or put under another header. *)
C10_GroupedInOrder ==
    Reported
        => /\ ReportFileBound
                => \E order \in IterationOrders(FrameworkNames) :
                      Grouped(FileSummary, order)
           /\ ~pre.logger.quiet
                => \E order \in IterationOrders(FrameworkNames) :
                      Grouped(ConsoleSummary, order)

(* Two gemini verifications with an actix one between them, actix first in
   the iteration. *)
C10_Witness ==
    /\ Reported /\ ReportFileBound
    /\ inbox = Interleaved
    /\ last.order = <<"actix", "gemini">>
    /\ Len(FileSummary) = 9

====
